---- MODULE Spec2Model ----
(* A model of lact-client's DaemonClient (src/lact-client/src/lib.rs):     *)
(* one Connection (BufReader half + writer half of a Unix stream) behind a *)
(* Mutex, shared by the threads that hold clones of the client, and the    *)
(* make_request cycle with its reconnect loop.                             *)
EXTENDS Integers, Sequences, FiniteSets, TLC

(***************************************************************************)
(* Bounds of the model                                                     *)
(***************************************************************************)
Threads == {"t1", "t2"}
\* calls of make_request the threads issue in total
MaxCalls == 2
\* streams the environment lets the client open (the first one included)
MaxStreams == 2
\* consecutive connect failures the environment produces in one reconnect loop
MaxFails == 2
\* bytes the daemon delivers to one read_line
MaxData == 2
\* times a caller decodes the ResponseBuffer it holds
MaxDecodes == 2

(***************************************************************************)
(* Program constants and the environment's vocabulary                      *)
(***************************************************************************)
RECONNECT_INTERVAL_MS == 250

RootPath == "/var/run/lactd.sock"
UserPath == "/var/run/user/1000/lactd.sock"
\* peer address of a socket that is not bound to a path (UnixStream::pair)
Unnamed == "(unnamed)"
NoPath == "(none)"
Peers == {RootPath, UserPath, Unnamed}

Requests == {"ListDevices", "SystemInfo"}

\* bytes on the wire, one token per unit the code distinguishes
NL == "\n"
OkDoc == "{\"status\":\"ok\"}"
ErrDoc == "{\"status\":\"error\"}"
Invalid == "0xFF"
Alphabet == {OkDoc, ErrDoc, NL, Invalid}

DesyncMsg == "Another request was not processed properly"
PeerAddrMsg == "Could not read peer address"
NotPathMsg == "Connected socket addr is not a path"
NotFoundMsg == "Could not connect to daemon: socket file not found"
ConnectMsg == "Could not connect to daemon"
CloneMsg == "try_clone failed"

NoThread == "(free)"
NoRequest == "(no request)"

SeqsUpTo(S, n) == UNION {[1..k -> S] : k \in 0..n}
DaemonData == SeqsUpTo(Alphabet, MaxData)

Ok(v) == [ok |-> TRUE, val |-> v]
Err(m) == [ok |-> FALSE, val |-> m]
NoResult == [ok |-> FALSE, val |-> "(pending)"]

VARIABLES
    client,      \* "unbuilt" | "ready" | "failed": outcome of the constructor
    ctor,        \* history: what the constructor did and is returning
    held,        \* each caller's ResponseBuffer and what inner() gave for it
    conn,        \* the (BufReader<UnixStream>, UnixStream) pair inside the Mutex
    lock,        \* the thread holding the MutexGuard, or NoThread
    nextStream,  \* number of streams opened so far (stream identities)
    pc,          \* each thread's position inside make_request
    req,         \* each thread's `request` argument
    path,        \* each thread's `path` local of the reconnect branch
    result,      \* the value make_request is returning (at pc = "return")
    calls,       \* calls of make_request started so far
    hist,        \* history of the thread's current call (see NoHist)
    trace,       \* history: events of the reconnect loops of the current call
    wire         \* history: bytes written to the held connection by the
                 \* send/receive cycles still in progress, tagged by thread

vars == <<client, ctor, held, conn, lock, nextStream, pc, req, path, result,
          calls, hist, trace, wire>>

(***************************************************************************)
(* Pure functions of the source                                            *)
(***************************************************************************)
Stream(id, peer) == [id |-> id, peer |-> peer]
NoConn == [reader |-> [stream |-> Stream(0, NoPath), buf |-> <<>>],
           writer |-> Stream(0, NoPath)]

\* BufReader::new(stream.try_clone()?) paired with the stream itself
Pair(stream) == [reader |-> [stream |-> stream, buf |-> <<>>], writer |-> stream]

\* get_socket_path: the system-wide socket first, then the per-user one
get_socket_path(rootExists, userExists) ==
    IF rootExists THEN RootPath
    ELSE IF userExists THEN UserPath
    ELSE NoPath

\* connect_pair: UnixStream::connect(path) then try_clone; either may fail
connect_pair(p, id, connectOk, cloneOk) ==
    IF connectOk /\ cloneOk
    THEN Ok(Pair(Stream(id, p)))
    ELSE Err(ConnectMsg)

\* an address lookup that falls back to the system-wide socket
as_pathname_OrDefault(peer) == IF peer \in {RootPath, UserPath} THEN peer ELSE RootPath

\* SocketAddr::as_pathname
as_pathname(peer) == IF peer \in {RootPath, UserPath} THEN peer ELSE NoPath

\* serde_json::to_string(request): the request as a sequence of bytes (three
\* tokens, so that a write can stop inside it); it does not fail for the
\* Request variants the client builds
Serialize(r) == <<"{\"command\":", r, "}">>

\* a check that never fires
DesyncDetected_Never(reader) == FALSE

\* !reader.buffer().is_empty()
DesyncDetected(reader) == reader.buf # <<>>

RECURSIVE IndexOf(_, _, _)
IndexOf(s, b, i) ==
    IF i > Len(s) THEN 0
    ELSE IF s[i] = b THEN i
    ELSE IndexOf(s, b, i + 1)

\* BufRead::read_line over the buffered bytes followed by what the socket
\* delivers: take bytes through the first newline and leave the rest in the
\* buffer; without a newline take everything up to the end of the stream or
\* the I/O error; the taken bytes must be valid UTF-8.
read_line(buf, avail, ioerr) ==
    LET data == IF IndexOf(buf, NL, 1) # 0 THEN buf ELSE buf \o avail
        k    == IndexOf(data, NL, 1)
        line == IF k = 0 THEN data ELSE SubSeq(data, 1, k)
        rest == IF k = 0 THEN <<>> ELSE SubSeq(data, k + 1, Len(data))
        bad  == \E i \in 1..Len(line) : line[i] = Invalid
    IN  [ok   |-> ~bad /\ ~(k = 0 /\ ioerr),
         line |-> line,
         rest |-> rest]

(***************************************************************************)
(* Decoding a response line                                                *)
(***************************************************************************)
\* the types a caller expects (the T of ResponseBuffer<T>)
ExpectedTypes == {"SystemInfo", "Vec<DeviceListEntry>"}
\* the type the data of OkDoc has the shape of, the value it deserializes to
\* and the message carried by ErrDoc
OkDocType == "SystemInfo"
OkData == "data"
DaemonMessage == "message"

DeserializeMsg == "Could not deserialize response from daemon"
DaemonErrMsg == "Got error from daemon: "

\* serde_json::from_str::<Response<T>>: whitespace around the document is
\* skipped; one success document whose data has the shape of T gives
\* Response::Ok(data), one error document gives Response::Error(message)
\* whatever T is, everything else (nothing, several documents, invalid
\* bytes, data of another shape) is an error
from_str(buf, ty) ==
    LET doc == SelectSeq(buf, LAMBDA b : b # NL)
    IN  IF doc = <<OkDoc>>
        THEN IF ty = OkDocType
             THEN Ok([tag |-> "Ok", data |-> OkData])
             ELSE Err("invalid type")
        ELSE IF doc = <<ErrDoc>>
        THEN Ok([tag |-> "Error", err |-> DaemonMessage])
        ELSE IF doc = <<>>
        THEN Err("EOF while parsing a value")
        ELSE Err("syntax error")

\* an inner that attaches the deserialization context to every failure
inner_OneError(rb) ==
    LET response == from_str(rb.buf, rb.ty)
    IN  IF ~response.ok THEN Err(<<DeserializeMsg, response.val>>)
        ELSE IF response.val.tag = "Ok" THEN Ok(response.val.data)
        ELSE Err(<<DeserializeMsg, response.val.err>>)

\* ResponseBuffer::inner
inner(rb) ==
    LET response == from_str(rb.buf, rb.ty)
    IN  IF ~response.ok THEN Err(<<DeserializeMsg, response.val>>)
        ELSE IF response.val.tag = "Ok" THEN Ok(response.val.data)
        ELSE Err(<<DaemonErrMsg, response.val.err>>)

\* the T of the ResponseBuffer<T> each request's wrapper returns
ResponseType(r) ==
    IF r = "SystemInfo" THEN "SystemInfo" ELSE "Vec<DeviceListEntry>"

(***************************************************************************)
(* Construction                                                            *)
(***************************************************************************)
\* history of one call: the request the caller passed, the send/receive
\* cycles started (process_request calls), the complete frames written, the
\* cycles that failed, the successful reconnects, the stream of the latest
\* cycle, the stream of the last failed cycle and the stream the returned
\* line was read from
NoHist == [orig |-> NoRequest, cycles |-> 0, copies |-> 0, ioFails |-> 0,
           recs |-> 0, stream |-> 0, failedOn |-> 0, readOn |-> 0]

\* history of the constructor: which one ran, the connect attempts it made,
\* the time it slept, the error it returns ("" for none) and the peer address
\* of the stream it put into the client; only the last outlives its return
NoCtor == [by |-> "", attempts |-> 0, slept |-> 0, err |-> "", peer |-> NoPath]

\* no ResponseBuffer in the caller's hands
NoBuffer == [has |-> FALSE, buf |-> <<>>, ty |-> "", n |-> 0, out |-> NoResult]

Init ==
    /\ client = "unbuilt"
    /\ ctor = NoCtor
    /\ held = [t \in Threads |-> NoBuffer]
    /\ conn = NoConn
    /\ lock = NoThread
    /\ nextStream = 0
    /\ pc = [t \in Threads |-> "idle"]
    /\ req = [t \in Threads |-> NoRequest]
    /\ path = [t \in Threads |-> NoPath]
    /\ result = [t \in Threads |-> NoResult]
    /\ calls = 0
    /\ hist = [t \in Threads |-> NoHist]
    /\ trace = [t \in Threads |-> <<>>]
    /\ wire = <<>>

threadVars == <<lock, pc, req, path, result, calls, hist, trace, wire>>

\* a constructor that treats a refused connection as make_request does:
\* it sleeps RECONNECT_INTERVAL_MS and attempts once more
Connect_Retries ==
    /\ client = "unbuilt"
    /\ \E rootExists, userExists, connectOk, cloneOk, secondOk \in BOOLEAN :
         LET p == get_socket_path(rootExists, userExists)
             r == connect_pair(p, nextStream + 1, connectOk, cloneOk)
         IN  IF p = NoPath
             THEN /\ client' = "failed"
                  /\ ctor' = [NoCtor EXCEPT !.by = "connect", !.err = NotFoundMsg]
                  /\ UNCHANGED <<conn, nextStream>>
             ELSE IF r.ok
             THEN /\ client' = "ready"
                  /\ ctor' = [NoCtor EXCEPT !.by = "connect", !.attempts = 1,
                                            !.peer = p]
                  /\ conn' = r.val
                  /\ nextStream' = nextStream + 1
             ELSE IF secondOk
             THEN /\ client' = "ready"
                  /\ ctor' = [NoCtor EXCEPT !.by = "connect", !.attempts = 2,
                                            !.slept = RECONNECT_INTERVAL_MS,
                                            !.peer = p]
                  /\ conn' = Pair(Stream(nextStream + 1, p))
                  /\ nextStream' = nextStream + 1
             ELSE /\ client' = "failed"
                  /\ ctor' = [NoCtor EXCEPT !.by = "connect", !.attempts = 2,
                                            !.slept = RECONNECT_INTERVAL_MS,
                                            !.err = r.val]
                  /\ UNCHANGED <<conn, nextStream>>
    /\ UNCHANGED <<held, threadVars>>

\* DaemonClient::connect
Connect ==
    /\ client = "unbuilt"
    /\ \E rootExists, userExists, connectOk, cloneOk \in BOOLEAN :
         LET p == get_socket_path(rootExists, userExists)
             r == connect_pair(p, nextStream + 1, connectOk, cloneOk)
         IN  IF p = NoPath
             THEN /\ client' = "failed"
                  /\ ctor' = [NoCtor EXCEPT !.by = "connect", !.err = NotFoundMsg]
                  /\ UNCHANGED <<conn, nextStream>>
             ELSE IF r.ok
             THEN /\ client' = "ready"
                  /\ ctor' = [NoCtor EXCEPT !.by = "connect", !.attempts = 1,
                                            !.peer = p]
                  /\ conn' = r.val
                  /\ nextStream' = nextStream + 1
             ELSE /\ client' = "failed"
                  /\ ctor' = [NoCtor EXCEPT !.by = "connect", !.attempts = 1,
                                            !.err = r.val]
                  /\ UNCHANGED <<conn, nextStream>>
    /\ UNCHANGED <<held, threadVars>>

\* DaemonClient::from_stream, given a connected stream (the `embedded` flag is
\* stored and never read by the client, so it is not part of the state)
FromStream ==
    /\ client = "unbuilt"
    /\ \E peer \in Peers, cloneOk \in BOOLEAN :
         IF cloneOk
         THEN /\ client' = "ready"
              /\ ctor' = [NoCtor EXCEPT !.by = "from_stream", !.peer = peer]
              /\ conn' = Pair(Stream(nextStream + 1, peer))
              /\ nextStream' = nextStream + 1
         ELSE /\ client' = "failed"
              /\ ctor' = [NoCtor EXCEPT !.by = "from_stream", !.err = CloneMsg]
              /\ UNCHANGED <<conn, nextStream>>
    /\ UNCHANGED <<held, threadVars>>

\* Ok(Self { .. }) reaches the caller: the client can be cloned and used
Built ==
    /\ client = "ready"
    /\ ctor.by # ""
    /\ ctor' = [NoCtor EXCEPT !.peer = ctor.peer]
    /\ UNCHANGED <<client, held, conn, nextStream, threadVars>>

(***************************************************************************)
(* make_request, one action per blocking point                             *)
(***************************************************************************)
Tag(t, bytes) == [i \in 1..Len(bytes) |-> [th |-> t, b |-> bytes[i]]]
Bytes(w) == [i \in 1..Len(w) |-> w[i].b]
Without(w, t) == SelectSeq(w, LAMBDA e : e.th # t)
Of(w, t) == Bytes(SelectSeq(w, LAMBDA e : e.th = t))

\* a caller enters make_request(request)
Call(t) ==
    /\ client = "ready"
    /\ ctor.by = ""
    /\ pc[t] = "idle"
    /\ calls < MaxCalls
    /\ \E r \in Requests :
         /\ req' = [req EXCEPT ![t] = r]
         /\ hist' = [hist EXCEPT ![t] = [NoHist EXCEPT !.orig = r]]
    /\ pc' = [pc EXCEPT ![t] = "lock"]
    /\ calls' = calls + 1
    /\ UNCHANGED <<client, ctor, held, conn, lock, nextStream, path, result,
                   trace, wire>>

\* a lock that admits a second holder
LockFree_NoExclusion == TRUE

\* Mutex::lock blocks until no other thread holds the guard (no thread
\* panics while holding it, so the lock is never poisoned)
LockFree == lock = NoThread

Acquire(t) ==
    /\ pc[t] = "lock"
    /\ LockFree
    /\ lock' = t
    /\ pc' = [pc EXCEPT ![t] = "check"]
    /\ UNCHANGED <<client, ctor, held, conn, nextStream, req, path, result,
                   calls, hist, trace, wire>>

\* a check that discards the unread bytes and carries on
DesyncCheck_Drains(t) ==
    /\ pc[t] = "check"
    /\ conn' = [conn EXCEPT !.reader.buf = <<>>]
    /\ pc' = [pc EXCEPT ![t] = "write_payload"]
    /\ hist' = [hist EXCEPT ![t].cycles = @ + 1,
                            ![t].stream = conn.writer.id]
    /\ UNCHANGED <<client, ctor, held, lock, nextStream, req, path, calls,
                   result, trace, wire>>

\* the pre-flight check of the read buffer; process_request starts if it passes
DesyncCheck(t) ==
    /\ pc[t] = "check"
    /\ IF DesyncDetected(conn.reader)
       THEN /\ pc' = [pc EXCEPT ![t] = "return"]
            /\ result' = [result EXCEPT ![t] = Err(DesyncMsg)]
            /\ UNCHANGED hist
       ELSE /\ pc' = [pc EXCEPT ![t] = "write_payload"]
            /\ hist' = [hist EXCEPT ![t].cycles = @ + 1,
                                    ![t].stream = conn.writer.id]
            /\ UNCHANGED result
    /\ UNCHANGED <<client, ctor, held, conn, lock, nextStream, req, path, calls,
                   trace, wire>>

IoMsg == "I/O error"

\* an Err arm that hands the I/O error to the caller
CycleFailed_Surfaces(t) ==
    /\ pc' = [pc EXCEPT ![t] = "return"]
    /\ hist' = [hist EXCEPT ![t].failedOn = hist[t].stream,
                            ![t].ioFails = @ + 1]
    /\ result' = [result EXCEPT ![t] = Err(IoMsg)]

\* an Err arm that starts the cycle again on the connection it holds
CycleFailed_RetriesInPlace(t) ==
    /\ pc' = [pc EXCEPT ![t] = "write_payload"]
    /\ hist' = [hist EXCEPT ![t].failedOn = hist[t].stream,
                            ![t].ioFails = @ + 1,
                            ![t].cycles = @ + 1]
    /\ UNCHANGED result

\* process_request returned Err: the Err arm of the match begins, nothing is
\* returned yet
CycleFailed(t) ==
    /\ pc' = [pc EXCEPT ![t] = "peer_addr"]
    /\ hist' = [hist EXCEPT ![t].failedOn = hist[t].stream,
                            ![t].ioFails = @ + 1]
    /\ UNCHANGED result

\* writer.write_all(request_payload.as_bytes()): all bytes, or an error after
\* a strict prefix of them
WritePayload(t) ==
    /\ pc[t] = "write_payload"
    /\ LET payload == Serialize(req[t]) IN
       \E n \in 0..Len(payload) :
         IF n = Len(payload)
         THEN /\ wire' = wire \o Tag(t, payload)
              /\ pc' = [pc EXCEPT ![t] = "write_nl"]
              /\ UNCHANGED <<hist, result>>
         ELSE /\ wire' = Without(wire, t)
              /\ CycleFailed(t)
    /\ UNCHANGED <<client, ctor, held, conn, lock, nextStream, req, path, calls, trace>>

\* writer.write_all(b"\n")
WriteNewline(t) ==
    /\ pc[t] = "write_nl"
    /\ \E ok \in BOOLEAN :
         IF ok
         THEN /\ wire' = wire \o Tag(t, <<NL>>)
              /\ pc' = [pc EXCEPT ![t] = "read"]
              /\ hist' = [hist EXCEPT ![t].copies = @ + 1]
              /\ UNCHANGED result
         ELSE /\ wire' = Without(wire, t)
              /\ CycleFailed(t)
    /\ UNCHANGED <<client, ctor, held, conn, lock, nextStream, req, path, calls, trace>>

\* a cycle that decodes the line it read and treats a line that is not a
\* success for the caller's type as a failed cycle
ReadResponse_RetriesErrors(t) ==
    /\ pc[t] = "read"
    /\ \E avail \in DaemonData, ioerr \in BOOLEAN :
         LET r == read_line(conn.reader.buf, avail, ioerr) IN
         /\ conn' = [conn EXCEPT !.reader.buf = r.rest]
         /\ IF r.ok /\ inner([buf |-> r.line, ty |-> ResponseType(req[t])]).ok
            THEN /\ pc' = [pc EXCEPT ![t] = "return"]
                 /\ result' = [result EXCEPT ![t] = Ok(r.line)]
                 /\ hist' = [hist EXCEPT ![t].readOn = conn.reader.stream.id]
            ELSE IF r.ok
            THEN /\ pc' = [pc EXCEPT ![t] = "peer_addr"]
                 /\ hist' = [hist EXCEPT ![t].readOn = conn.reader.stream.id,
                                         ![t].failedOn = hist[t].stream,
                                         ![t].ioFails = @ + 1]
                 /\ UNCHANGED result
            ELSE CycleFailed(t)
    /\ wire' = Without(wire, t)
    /\ UNCHANGED <<client, ctor, held, lock, nextStream, req, path, calls,
                   trace>>

\* reader.read_line(&mut response_payload) and the match on the cycle's
\* outcome: Ok(payload) is wrapped in a ResponseBuffer and returned
ReadResponse(t) ==
    /\ pc[t] = "read"
    /\ \E avail \in DaemonData, ioerr \in BOOLEAN :
         LET r == read_line(conn.reader.buf, avail, ioerr) IN
         /\ conn' = [conn EXCEPT !.reader.buf = r.rest]
         /\ IF r.ok
            THEN /\ pc' = [pc EXCEPT ![t] = "return"]
                 /\ result' = [result EXCEPT ![t] = Ok(r.line)]
                 /\ hist' = [hist EXCEPT ![t].readOn = conn.reader.stream.id]
            ELSE CycleFailed(t)
    /\ wire' = Without(wire, t)
    /\ UNCHANGED <<client, ctor, held, lock, nextStream, req, path, calls,
                   trace>>

\* a repair that looks the socket up again as connect() does
PeerAddr_Rediscovers(t) ==
    /\ pc[t] = "peer_addr"
    /\ \E retrievable, rootExists, userExists \in BOOLEAN :
         IF ~retrievable
         THEN /\ pc' = [pc EXCEPT ![t] = "return"]
              /\ result' = [result EXCEPT ![t] = Err(PeerAddrMsg)]
              /\ UNCHANGED <<path, trace>>
         ELSE IF get_socket_path(rootExists, userExists) = NoPath
         THEN /\ pc' = [pc EXCEPT ![t] = "return"]
              /\ result' = [result EXCEPT ![t] = Err(NotPathMsg)]
              /\ UNCHANGED <<path, trace>>
         ELSE /\ path' = [path EXCEPT ![t] = get_socket_path(rootExists, userExists)]
              /\ pc' = [pc EXCEPT ![t] = "connect"]
              /\ UNCHANGED <<result, trace>>
    /\ UNCHANGED <<client, ctor, held, conn, lock, nextStream, req, calls, hist, wire>>

\* writer.peer_addr() and as_pathname(): the path the reconnect loop
\* targets; either failure leaves make_request
PeerAddr(t) ==
    /\ pc[t] = "peer_addr"
    /\ \E retrievable \in BOOLEAN :
         IF ~retrievable
         THEN /\ pc' = [pc EXCEPT ![t] = "return"]
              /\ result' = [result EXCEPT ![t] = Err(PeerAddrMsg)]
              /\ UNCHANGED <<path, trace>>
         ELSE IF as_pathname(conn.writer.peer) = NoPath
         THEN /\ pc' = [pc EXCEPT ![t] = "return"]
              /\ result' = [result EXCEPT ![t] = Err(NotPathMsg)]
              /\ UNCHANGED <<path, trace>>
         ELSE /\ path' = [path EXCEPT ![t] = as_pathname(conn.writer.peer)]
              /\ pc' = [pc EXCEPT ![t] = "connect"]
              /\ UNCHANGED <<result, trace>>
    /\ UNCHANGED <<client, ctor, held, conn, lock, nextStream, req, calls, hist, wire>>

Event(e, ms) == [ev |-> e, ms |-> ms]
Count(tr, e) == Cardinality({i \in 1..Len(tr) : tr[i].ev = e})
\* failed attempts of the reconnect loop in progress: those after the last
\* successful one
LoopFails(tr) ==
    Cardinality({i \in 1..Len(tr) :
        /\ tr[i].ev = "connect_err"
        /\ \A j \in i..Len(tr) : tr[j].ev # "connect_ok"})

\* a reconnect that keeps the broken pair
NewHeld_KeepsOld(old, new) == old

\* a reconnect that swaps the write half and keeps reading from the old
\* stream
NewHeld_WriterOnly(old, new) == [reader |-> old.reader, writer |-> new.writer]

\* *stream_guard = new_connection
NewHeld(old, new) == new

\* a reconnect that hands back the failed cycle's empty payload instead of
\* issuing the request again
ConnectOk_NoReissue(t) ==
    /\ pc[t] = "connect"
    /\ nextStream < MaxStreams
    /\ LET r == connect_pair(path[t], nextStream + 1, TRUE, TRUE) IN
         conn' = NewHeld(conn, r.val)
    /\ nextStream' = nextStream + 1
    /\ pc' = [pc EXCEPT ![t] = "return"]
    /\ result' = [result EXCEPT ![t] = Ok(<<>>)]
    /\ path' = [path EXCEPT ![t] = NoPath]
    /\ hist' = [hist EXCEPT ![t].recs = @ + 1]
    /\ trace' = [trace EXCEPT ![t] = Append(@, Event("connect_ok", 0))]
    /\ UNCHANGED <<client, ctor, held, lock, req, calls, wire>>

\* a reconnect that issues the request again under the guard it holds
ConnectOk_KeepsGuard(t) ==
    /\ pc[t] = "connect"
    /\ nextStream < MaxStreams
    /\ LET r == connect_pair(path[t], nextStream + 1, TRUE, TRUE) IN
         conn' = NewHeld(conn, r.val)
    /\ nextStream' = nextStream + 1
    /\ pc' = [pc EXCEPT ![t] = "check"]
    /\ path' = [path EXCEPT ![t] = NoPath]
    /\ hist' = [hist EXCEPT ![t].recs = @ + 1]
    /\ trace' = [trace EXCEPT ![t] = Append(@, Event("connect_ok", 0))]
    /\ UNCHANGED <<client, ctor, held, lock, req, result, calls, wire>>

\* connect_pair(path) succeeded: replace the pair, drop the guard and call
\* make_request(request) again
ConnectOk(t) ==
    /\ pc[t] = "connect"
    /\ nextStream < MaxStreams
    /\ LET r == connect_pair(path[t], nextStream + 1, TRUE, TRUE) IN
         conn' = NewHeld(conn, r.val)
    /\ nextStream' = nextStream + 1
    /\ lock' = NoThread
    /\ pc' = [pc EXCEPT ![t] = "lock"]
    /\ path' = [path EXCEPT ![t] = NoPath]
    /\ hist' = [hist EXCEPT ![t].recs = @ + 1]
    /\ trace' = [trace EXCEPT ![t] = Append(@, Event("connect_ok", 0))]
    /\ UNCHANGED <<client, ctor, held, req, result, calls, wire>>

\* a loop that retries at once
AfterConnectErr_BusySpin == "connect"

\* where the Err arm of the loop goes: log, then sleep
AfterConnectErr == "sleep"

\* a loop with a retry limit: the second failure in a row is returned
ConnectErr_GivesUp(t) ==
    /\ pc[t] = "connect"
    /\ LoopFails(trace[t]) < MaxFails
    /\ IF LoopFails(trace[t]) >= 1
       THEN /\ pc' = [pc EXCEPT ![t] = "return"]
            /\ result' = [result EXCEPT ![t] = Err(ConnectMsg)]
       ELSE /\ pc' = [pc EXCEPT ![t] = AfterConnectErr]
            /\ UNCHANGED result
    /\ trace' = [trace EXCEPT ![t] = Append(@, Event("connect_err", 0))]
    /\ UNCHANGED <<client, ctor, held, conn, lock, nextStream, req, path, calls, hist,
                   wire>>

\* connect_pair(path) failed (the connect itself or try_clone)
ConnectErr(t) ==
    /\ pc[t] = "connect"
    /\ LoopFails(trace[t]) < MaxFails
    /\ \E connectOk, cloneOk \in BOOLEAN :
         /\ ~connect_pair(path[t], nextStream + 1, connectOk, cloneOk).ok
    /\ pc' = [pc EXCEPT ![t] = AfterConnectErr]
    /\ trace' = [trace EXCEPT ![t] = Append(@, Event("connect_err", 0))]
    /\ UNCHANGED <<client, ctor, held, conn, lock, nextStream, req, path,
                   result, calls, hist, wire>>

\* a loop that lets other requests in while it sleeps
Sleep_ReleasesLock(t) ==
    /\ pc[t] = "sleep"
    /\ pc' = [pc EXCEPT ![t] = "connect"]
    /\ lock' = NoThread
    /\ trace' = [trace EXCEPT ![t] = Append(@, Event("sleep", RECONNECT_INTERVAL_MS))]
    /\ UNCHANGED <<client, ctor, held, conn, nextStream, req, path,
                   result, calls, hist, wire>>

\* std::thread::sleep(Duration::from_millis(RECONNECT_INTERVAL_MS)), then
\* the next iteration of the loop
Sleep(t) ==
    /\ pc[t] = "sleep"
    /\ pc' = [pc EXCEPT ![t] = "connect"]
    /\ trace' = [trace EXCEPT ![t] = Append(@, Event("sleep", RECONNECT_INTERVAL_MS))]
    /\ UNCHANGED <<client, ctor, held, conn, lock, nextStream, req, path,
                   result, calls, hist, wire>>

\* make_request returns `result`: the frame is left and the MutexGuard dropped
Return(t) ==
    /\ pc[t] = "return"
    /\ pc' = [pc EXCEPT ![t] = "idle"]
    /\ lock' = NoThread
    /\ result' = [result EXCEPT ![t] = NoResult]
    /\ req' = [req EXCEPT ![t] = NoRequest]
    /\ path' = [path EXCEPT ![t] = NoPath]
    /\ hist' = [hist EXCEPT ![t] = NoHist]
    /\ trace' = [trace EXCEPT ![t] = <<>>]
    /\ UNCHANGED <<client, ctor, held, conn, nextStream, calls, wire>>

Next ==
    \/ Connect
    \/ FromStream
    \/ Built
    \/ \E t \in Threads :
         \/ Call(t)
         \/ Acquire(t)
         \/ DesyncCheck(t)
         \/ WritePayload(t)
         \/ WriteNewline(t)
         \/ ReadResponse(t)
         \/ PeerAddr(t)
         \/ ConnectOk(t)
         \/ ConnectErr(t)
         \/ Sleep(t)
         \/ Return(t)

Spec == Init /\ [][Next]_vars

(***************************************************************************)
(* A request that is in the reconnect loop before any other is issued      *)
(***************************************************************************)
\* the first request of the client, R, has seen its cycle fail on the first
\* connection (before or after its frame was written) and is about to
\* attempt a reconnect; no other request has been issued yet
ReorderInit ==
    \E t \in Threads, peer \in {RootPath, UserPath}, r \in Requests, c \in {0, 1} :
        /\ client = "ready"
        /\ ctor = [NoCtor EXCEPT !.peer = peer]
        /\ held = [u \in Threads |-> NoBuffer]
        /\ conn = Pair(Stream(1, peer))
        /\ nextStream = 1
        /\ lock = t
        /\ pc = [u \in Threads |-> IF u = t THEN "connect" ELSE "idle"]
        /\ req = [u \in Threads |-> IF u = t THEN r ELSE NoRequest]
        /\ path = [u \in Threads |-> IF u = t THEN peer ELSE NoPath]
        /\ result = [u \in Threads |-> NoResult]
        /\ calls = 1
        /\ hist = [u \in Threads |->
                     IF u = t
                     THEN [NoHist EXCEPT !.orig = r, !.cycles = 1, !.copies = c,
                                         !.ioFails = 1, !.stream = 1,
                                         !.failedOn = 1]
                     ELSE NoHist]
        /\ trace = [u \in Threads |-> <<>>]
        /\ wire = <<>>

ReorderNext ==
    \E t \in Threads :
        \/ Call(t)
        \/ Acquire(t)
        \/ DesyncCheck(t)
        \/ WritePayload(t)
        \/ WriteNewline(t)
        \/ ReadResponse(t)
        \/ PeerAddr(t)
        \/ ConnectOk(t)
        \/ ConnectErr(t)
        \/ Sleep(t)
        \/ Return(t)

ReorderSpec == ReorderInit /\ [][ReorderNext]_vars

(***************************************************************************)
(* ResponseBuffer::inner                                                   *)
(***************************************************************************)
\* an inner(self) that moves the payload out of the buffer
Decoded_Takes(rb) ==
    [rb EXCEPT !.n = @ + 1, !.out = inner(rb), !.buf = <<>>]

\* the caller's buffer after rb.inner(): &self is borrowed, the outcome goes
\* to the caller
Decoded(rb) ==
    [rb EXCEPT !.n = @ + 1, !.out = inner(rb)]

\* a caller decodes the buffer it holds
Inner(t) ==
    /\ held[t].has
    /\ held[t].n < MaxDecodes
    /\ held' = [held EXCEPT ![t] = Decoded(@)]
    /\ UNCHANGED <<client, ctor, conn, nextStream, threadVars>>

\* the lines make_request can return: what read_line takes from the bytes
\* the daemon delivers
Payloads ==
    {read_line(<<>>, d, FALSE).line :
        d \in {e \in DaemonData : read_line(<<>>, e, FALSE).ok}}

\* callers holding the buffers their calls returned, the client at rest
DecodeInit ==
    /\ client = "ready"
    /\ \E peer \in Peers :
         /\ ctor = [NoCtor EXCEPT !.peer = peer]
         /\ conn = Pair(Stream(1, peer))
    /\ nextStream = 1
    /\ held \in [Threads -> [has : {TRUE}, buf : Payloads, ty : ExpectedTypes,
                              n : {0}, out : {NoResult}]]
    /\ lock = NoThread
    /\ pc = [t \in Threads |-> "idle"]
    /\ req = [t \in Threads |-> NoRequest]
    /\ path = [t \in Threads |-> NoPath]
    /\ result = [t \in Threads |-> NoResult]
    /\ calls = Cardinality(Threads)
    /\ hist = [t \in Threads |-> NoHist]
    /\ trace = [t \in Threads |-> <<>>]
    /\ wire = <<>>

DecodeNext == \E t \in Threads : Inner(t)

DecodeSpec == DecodeInit /\ [][DecodeNext]_vars

(***************************************************************************)
(* Properties                                                              *)
(***************************************************************************)
\* positions at which a thread holds the MutexGuard
GuardStates == {"check", "write_payload", "write_nl", "read", "peer_addr",
                "connect", "sleep", "return"}
\* positions of the send/receive cycle (process_request)
CycleStates == {"write_payload", "write_nl", "read"}
\* positions of the Err arm: peer address lookup and the reconnect loop
RepairStates == {"peer_addr", "connect", "sleep"}
\* positions at which a thread touches the socket or reconnects
IOStates == CycleStates \cup {"peer_addr", "connect", "sleep"}

\* the frame of the thread's original request
Frame(t) == Serialize(hist[t].orig) \o <<NL>>

\* C2: at most one thread is performing I/O on the Connection (writing,
\* reading or reconnecting) and it is the holder of the guard; the bytes
\* written by cycles still in progress all belong to that one thread and are
\* a prefix of its request's frame, so no byte of another request lies
\* between the first byte of a request and the end of its cycle.
C2_OneThreadDoesIO ==
    /\ \A t, u \in Threads :
         (pc[t] \in IOStates /\ pc[u] \in IOStates) => t = u
    /\ \A t \in Threads : pc[t] \in GuardStates => lock = t
    /\ \A i \in 1..Len(wire) :
         /\ wire[i].th = lock
         /\ pc[wire[i].th] \in CycleStates
    /\ \A t \in Threads :
         /\ pc[t] = "write_payload" => Of(wire, t) = <<>>
         /\ pc[t] = "write_nl" => Of(wire, t) = Serialize(req[t])
         /\ pc[t] = "read" => Of(wire, t) = Serialize(req[t]) \o <<NL>>
    /\ \A t \in Threads : pc[t] \in CycleStates => Bytes(wire) = Of(wire, t)

\* a request is on the wire, its response not yet read, and the other thread
\* has entered make_request and is blocked on the lock
C2_Witness ==
    \E t, u \in Threads :
        /\ t # u
        /\ pc[t] = "read"
        /\ pc[u] = "lock"
        /\ Bytes(wire) = Frame(t)

\* C4: when the desync check finds unread bytes in the read buffer, the call
\* goes straight to returning the desync error: the step writes nothing,
\* reads nothing, opens no stream and leaves the held Connection and its
\* buffer as they are; a call returning the desync error has started no
\* send/receive cycle and no reconnect since it took the lock, and the step
\* that returns it releases the lock and still leaves the Connection alone.
C4_DesyncFailsFast ==
    /\ [](\A t \in Threads :
            (pc[t] = "return" /\ result[t] = Err(DesyncMsg)) =>
                /\ conn.reader.buf # <<>>
                /\ hist[t].cycles = hist[t].recs
                /\ wire = <<>>
                /\ lock = t)
    /\ [][\A t \in Threads :
            /\ (pc[t] = "check" /\ conn.reader.buf # <<>> /\ pc'[t] # "check") =>
                  /\ pc'[t] = "return"
                  /\ result'[t] = Err(DesyncMsg)
                  /\ conn' = conn
                  /\ wire' = wire
                  /\ nextStream' = nextStream
                  /\ hist' = hist
                  /\ trace' = trace
            /\ (pc[t] = "return" /\ result[t] = Err(DesyncMsg) /\ pc'[t] # "return") =>
                  /\ pc'[t] = "idle"
                  /\ lock' = NoThread
                  /\ conn' = conn
                  /\ wire' = wire
                  /\ nextStream' = nextStream]_vars

\* a call is returning the desync error on a connection whose buffer holds
\* unread bytes
C4_Witness ==
    \E t \in Threads :
        /\ pc[t] = "return"
        /\ result[t] = Err(DesyncMsg)
        /\ conn.reader.buf # <<>>
        /\ hist[t].cycles = 0

Last(tr) == tr[Len(tr)]
PeerErrors == {Err(PeerAddrMsg), Err(NotPathMsg)}

IsErr(r, m) == ~r.ok /\ r.val = m

\* C1 as stated: a call that returns after one failed cycle and a successful
\* reconnect has written its request again on the new stream and returns
\* the line read there.
C1_ResendAlwaysFollowsReconnect ==
    \A t \in Threads :
        (pc[t] = "return" /\ hist[t].ioFails = 1 /\ hist[t].recs = 1) =>
            /\ result[t].ok
            /\ hist[t].cycles = 2
            /\ hist[t].readOn = hist[t].stream
            /\ hist[t].stream > hist[t].failedOn

\* C1 (amended): after a successful reconnect the call is re-issued with the
\* request the caller passed; a frame completely written is byte for byte
\* the frame of that request; and a call that returns after one failed cycle
\* and a successful reconnect either returns the line read by a second cycle
\* on a stream opened after the failure, or returns the desync error, having
\* found unread bytes in the buffer of the connection it re-entered on and
\* written nothing again.
C1_ResendUnlessDesync ==
    \A t \in Threads :
        /\ (pc[t] \in {"lock", "check"} \cup CycleStates) => req[t] = hist[t].orig
        /\ pc[t] = "read" => Bytes(wire) = Serialize(hist[t].orig) \o <<NL>>
        /\ (pc[t] = "return" /\ hist[t].ioFails = 1 /\ hist[t].recs = 1) =>
              \/ /\ result[t].ok
                 /\ hist[t].cycles = 2
                 /\ hist[t].copies >= 1
                 /\ hist[t].readOn = hist[t].stream
                 /\ hist[t].stream > hist[t].failedOn
              \/ /\ IsErr(result[t], DesyncMsg)
                 /\ hist[t].cycles = 1
                 /\ hist[t].readOn = 0
                 /\ conn.reader.buf # <<>>
                 /\ conn.writer.id > hist[t].failedOn

\* a call whose first cycle failed returns the response line of its second
\* cycle, run after a successful reconnect
C1_Witness ==
    \E t \in Threads :
        /\ pc[t] = "return"
        /\ hist[t].ioFails = 1
        /\ hist[t].recs = 1
        /\ hist[t].cycles = 2
        /\ result[t] = Ok(<<OkDoc, NL>>)

\* C3 as stated: make_request never returns as a successful payload what
\* read_line gives at the end of the stream, a payload without its line
\* terminator.
C3_EofIsNotReturned ==
    \A t \in Threads :
        (pc[t] = "return" /\ result[t].ok) =>
            /\ result[t].val # <<>>
            /\ Last(result[t].val) = NL

C7_IoFailureNeverSurfaces ==
    \A t \in Threads :
        (pc[t] = "return" /\ hist[t].ioFails >= 1) =>
            /\ hist[t].recs = hist[t].ioFails
            /\ result[t] \notin PeerErrors

\* C7 (amended): the error of a failed cycle is never what make_request
\* returns; a failed cycle leads to the peer-address lookup, which either
\* starts the reconnect loop with the path of the broken connection or
\* returns one of the two peer-address errors; a call that returns after a
\* failed cycle returns either such an error, its last failure unrepaired,
\* or, every failure repaired, the outcome of the re-issue: a line read on a
\* later stream or the desync error of the re-entry.
C7_IoFailureRetriedOrPeerError ==
    /\ [](\A t \in Threads :
            /\ (pc[t] = "return" /\ ~result[t].ok) =>
                  result[t].val \in {DesyncMsg, PeerAddrMsg, NotPathMsg}
            /\ (pc[t] = "return" /\ hist[t].ioFails >= 1) =>
                  \/ /\ result[t] \in PeerErrors
                     /\ hist[t].recs = hist[t].ioFails - 1
                     /\ conn.writer.id = hist[t].failedOn
                  \/ /\ result[t].ok
                     /\ hist[t].recs = hist[t].ioFails
                     /\ hist[t].readOn > hist[t].failedOn
                  \/ /\ IsErr(result[t], DesyncMsg)
                     /\ hist[t].recs = hist[t].ioFails
                     /\ conn.writer.id > hist[t].failedOn)
    /\ [][\A t \in Threads :
            /\ (pc[t] \in CycleStates /\ hist'[t].ioFails > hist[t].ioFails) =>
                  /\ pc'[t] = "peer_addr"
                  /\ result'[t] = result[t]
            /\ pc[t] = "peer_addr" =>
                  /\ pc'[t] \in {"peer_addr", "connect", "return"}
                  /\ pc'[t] = "return" => result'[t] \in PeerErrors
                  /\ pc'[t] = "connect" =>
                        /\ conn.writer.peer \in {RootPath, UserPath}
                        /\ path'[t] = conn.writer.peer]_vars

\* on a client connected to the per-user socket a cycle fails, the
\* connection is repaired and the call returns the daemon's answer to the
\* resent request, the caller seeing nothing of the failure
C7_Witness ==
    \E t \in Threads :
        /\ pc[t] = "return"
        /\ result[t] = Ok(<<ErrDoc, NL>>)
        /\ hist[t].ioFails = 1
        /\ hist[t].recs = hist[t].ioFails
        /\ conn.writer.peer = UserPath

\* C5: the reconnect loop has no exit but a successful connect: from inside
\* the loop a thread only moves to the sleep, to the next attempt, or, with
\* the connection replaced, to the re-issue of the same request, and nothing
\* is returned from it; so whatever make_request returns after connect
\* failures, it returns after a successful attempt, and a response it returns
\* was read on a stream opened after the failure.
C5_LoopNeverGivesUp ==
    /\ [](\A t \in Threads :
            (pc[t] = "return" /\ trace[t] # <<>>) =>
                /\ Last(trace[t]).ev = "connect_ok"
                /\ result[t].ok => hist[t].readOn > hist[t].failedOn)
    /\ [][\A t \in Threads :
            pc[t] \in {"connect", "sleep"} =>
                /\ pc'[t] \in {"connect", "sleep", "lock"}
                /\ result'[t] = result[t]
                /\ req'[t] = req[t]
                /\ pc'[t] = "lock" =>
                      /\ pc[t] = "connect"
                      /\ conn'.writer.id > conn.writer.id]_vars

\* a call returns a response after MaxFails failed attempts and one
\* successful attempt of a single reconnect loop
C5_Witness ==
    \E t \in Threads :
        /\ pc[t] = "return"
        /\ result[t].ok
        /\ hist[t].recs = 1
        /\ Count(trace[t], "connect_err") = MaxFails
        /\ Len(trace[t]) = 2 * MaxFails + 1

\* C8: when the cycle has failed and the broken connection's peer address is
\* not a path, the next step returns an error with no connect attempt, no
\* sleep and no write, and leaves the held Connection alone; a call returning
\* one of the two peer-address errors still holds the connection its last
\* cycle failed on, has attempted nothing since that failure, and the
\* returning step releases the lock.
C8_PeerAddressErrorIsFatal ==
    /\ [](\A t \in Threads :
            (pc[t] = "return" /\ result[t] \in PeerErrors) =>
                /\ conn.writer.id = hist[t].failedOn
                /\ hist[t].stream = hist[t].failedOn
                /\ hist[t].cycles = hist[t].recs + 1
                /\ Count(trace[t], "connect_ok") = hist[t].recs
                /\ trace[t] # <<>> => Last(trace[t]).ev = "connect_ok"
                /\ result[t] = Err(NotPathMsg) => conn.writer.peer = Unnamed
                /\ wire = <<>>
                /\ lock = t)
    /\ [][\A t \in Threads :
            /\ (pc[t] = "peer_addr" /\ conn.writer.peer = Unnamed
                    /\ pc'[t] # "peer_addr") =>
                  /\ pc'[t] = "return"
                  /\ result'[t] \in PeerErrors
            /\ (pc[t] = "peer_addr" /\ pc'[t] = "return") =>
                  /\ result'[t] \in PeerErrors
                  /\ conn' = conn
                  /\ nextStream' = nextStream
                  /\ trace' = trace
                  /\ hist' = hist
                  /\ wire' = wire
            /\ (pc[t] = "return" /\ result[t] \in PeerErrors
                    /\ pc'[t] # "return") =>
                  /\ pc'[t] = "idle"
                  /\ lock' = NoThread
                  /\ conn' = conn
                  /\ nextStream' = nextStream]_vars

\* a client built over an unnamed socket is returning the not-a-path error
\* after a failed cycle
C8_Witness ==
    \E t \in Threads :
        /\ pc[t] = "return"
        /\ result[t] = Err(NotPathMsg)
        /\ conn.writer.peer = Unnamed
        /\ hist[t].ioFails = 1

\* C9: every send/receive cycle runs on the held connection, and a cycle of
\* a call that has failed before runs on a stream opened (by a reconnect)
\* after the stream of the failure, never on the stream the failure
\* occurred on.
C9_RetryOnlyOnNewConnection ==
    \A t \in Threads :
        pc[t] \in CycleStates =>
            /\ hist[t].stream = conn.writer.id
            /\ hist[t].stream > hist[t].failedOn
            /\ hist[t].cycles > 1 =>
                  /\ hist[t].recs >= 1
                  /\ hist[t].failedOn >= 1
                  /\ hist[t].stream >= 2

\* a request that failed on the first stream has been resent on the second
\* one, opened by its reconnect, while the other thread waits for the lock
C9_Witness ==
    \E t, u \in Threads :
        /\ pc[t] = "read"
        /\ hist[t].cycles = 2
        /\ hist[t].failedOn = 1
        /\ hist[t].stream = 2
        /\ pc[u] = "lock"

\* C10: in the events of a call's reconnect loops every failed attempt is
\* followed by one 250 ms sleep before anything else, every sleep directly
\* follows a failed attempt and precedes the next attempt, so no two attempts
\* are adjacent, no sleep comes first and none follows a successful attempt.
C10_FixedSleepBetweenAttempts ==
    \A t \in Threads :
        LET tr == trace[t] IN
        /\ \A i \in 1..Len(tr) :
             /\ tr[i].ev = "connect_err" =>
                   IF i = Len(tr) THEN pc[t] = "sleep"
                   ELSE tr[i + 1] = Event("sleep", 250)
             /\ tr[i].ev = "sleep" =>
                   /\ tr[i].ms = 250
                   /\ i > 1
                   /\ tr[i - 1].ev = "connect_err"
                   /\ IF i = Len(tr) THEN pc[t] = "connect"
                      ELSE tr[i + 1].ev \in {"connect_err", "connect_ok"}
             /\ tr[i].ev = "connect_ok" =>
                   (i < Len(tr) => tr[i + 1].ev \in {"connect_err", "connect_ok"})
        /\ pc[t] = "sleep" => (tr # <<>> /\ Last(tr).ev = "connect_err")

\* a loop of two failed attempts, each followed by its sleep, and a
\* successful third attempt
C10_Witness ==
    \E t \in Threads :
        /\ Len(trace[t]) >= 5
        /\ SubSeq(trace[t], 1, 5) =
             <<Event("connect_err", 0), Event("sleep", 250),
               Event("connect_err", 0), Event("sleep", 250),
               Event("connect_ok", 0)>>

(***************************************************************************)
(* C11  DaemonClient::connect never retries: without a socket path it      *)
(* returns the not-found error having made no connect attempt; with a path *)
(* it makes exactly one attempt and, when that fails, returns its error    *)
(* without sleeping or attempting again, leaving no connection behind and  *)
(* a client nothing can be called on.  Failed connects followed by a sleep *)
(* and another attempt are found only in the trace of a make_request that  *)
(* has seen its send/receive cycle fail.                                   *)
(***************************************************************************)
C11_ConnectReturns ==
    /\ ctor.by = "connect" =>
          /\ ctor.slept = 0
          /\ ctor.attempts <= 1
          /\ (client = "failed") = (ctor.err # "")
          /\ ctor.err = NotFoundMsg =>
                ctor.attempts = 0 /\ conn = NoConn /\ nextStream = 0
          /\ (ctor.err # "" /\ ctor.err # NotFoundMsg) =>
                /\ ctor.attempts = 1
                /\ ctor.err = ConnectMsg
                /\ conn = NoConn
                /\ nextStream = 0
          /\ ctor.err = "" => ctor.attempts = 1 /\ conn.writer.peer = ctor.peer
    /\ \A t \in Threads :
          trace[t] # <<>> =>
              /\ client = "ready"
              /\ ctor.by = ""
              /\ pc[t] # "idle"
              /\ hist[t].ioFails > 0

\* C11: connect never retries: its return is as above in every state, the
\* constructor runs once and a client that failed to build takes no step
C11_ConnectNeverRetries ==
    /\ []C11_ConnectReturns
    /\ [][client = "unbuilt" => (ctor'.by # "" /\ client' # "unbuilt")]_vars
    /\ [][client # "failed"]_vars

\* connect found a socket file, its one attempt was refused and it is
\* returning that error
C11_Witness ==
    /\ client = "failed"
    /\ ctor.by = "connect"
    /\ ctor.attempts = 1
    /\ ctor.err = ConnectMsg
    /\ ctor.slept = 0

(***************************************************************************)
(* C12  inner maps the payload to exactly one of three outcomes.  With the *)
(* payload taken without its line terminator: one success document decoded *)
(* for the type its data has gives Ok of the embedded value; one error     *)
(* document gives, for every expected type, the error "Got error from      *)
(* daemon: " followed by the daemon's message; every other payload (empty, *)
(* several documents, a success document of another shape) gives an error  *)
(* that starts with the deserialization context, which is not the protocol *)
(* error's text.                                                           *)
(***************************************************************************)
C12_InnerThreeOutcomes ==
    /\ DeserializeMsg # DaemonErrMsg
    /\ \A t \in Threads :
          held[t].n > 0 =>
              LET p    == held[t].buf
                  body == IF p # <<>> /\ p[Len(p)] = NL
                          THEN SubSeq(p, 1, Len(p) - 1) ELSE p
                  out  == held[t].out
              IN  IF body = <<OkDoc>> /\ held[t].ty = OkDocType
                  THEN out = Ok(OkData)
                  ELSE IF body = <<ErrDoc>>
                  THEN out = Err(<<DaemonErrMsg, DaemonMessage>>)
                  ELSE /\ ~out.ok
                       /\ out.val[1] = DeserializeMsg
                       /\ out.val[2] # DaemonMessage

\* a daemon-reported error decoded for a type the success document does not
\* have, next to a success document decoded for that same type
C12_Witness ==
    \E t, u \in Threads :
        /\ held[t].n > 0
        /\ held[t].buf = <<ErrDoc, NL>>
        /\ held[t].ty # OkDocType
        /\ held[t].out = Err(<<DaemonErrMsg, DaemonMessage>>)
        /\ held[u].n > 0
        /\ held[u].buf = <<OkDoc, NL>>
        /\ held[u].ty = held[t].ty
        /\ ~held[u].out.ok

(***************************************************************************)
(* C13  Decoding is an idempotent view: a call of inner leaves the payload *)
(* and the expected type of the buffer as they were, gives the outcome the *)
(* previous call on that buffer gave, and changes nothing of the client:   *)
(* not the held connection, not the bytes in flight, not the lock.         *)
(***************************************************************************)
C13_InnerIsAView ==
    [][\A t \in Threads :
          held'[t] # held[t] =>
              /\ held'[t].buf = held[t].buf
              /\ held'[t].ty = held[t].ty
              /\ held'[t].n = held[t].n + 1
              /\ held[t].n > 0 => held'[t].out = held[t].out
              /\ conn' = conn
              /\ wire' = wire
              /\ nextStream' = nextStream
              /\ lock' = lock
              /\ pc' = pc]_vars

\* a success payload decoded twice, the value returned both times
C13_Witness ==
    \E t \in Threads :
        /\ held[t].n >= 2
        /\ held[t].buf = <<OkDoc, NL>>
        /\ held[t].out = Ok(OkData)

(***************************************************************************)
(* C14  The same address is reused for the lifetime of the client: both    *)
(* halves of the held connection are connected to the address of the       *)
(* client's first connection, every thread in the reconnect loop targets   *)
(* the address of the connection it is replacing, and a step that replaces *)
(* the held connection puts in a connection to the address of the one it   *)
(* takes out.                                                              *)
(***************************************************************************)
C14_TargetsHeldPeer ==
    client = "ready" =>
        /\ conn.writer.peer = ctor.peer
        /\ conn.reader.stream.peer = ctor.peer
        /\ \A t \in Threads :
              pc[t] \in {"connect", "sleep"} =>
                  /\ path[t] = conn.writer.peer
                  /\ path[t] \in {RootPath, UserPath}

\* C14: the same address for life: the above in every state, the address
\* of the first connection never changes and every replacement connects to
\* the address of the connection replaced
C14_SameAddressForLife ==
    /\ []C14_TargetsHeldPeer
    /\ [][client = "ready" => ctor'.peer = ctor.peer]_vars
    /\ [][(client = "ready" /\ conn'.writer # conn.writer) =>
              /\ conn'.writer.peer = conn.writer.peer
              /\ conn'.reader.stream.peer = conn.reader.stream.peer
              /\ \E t \in Threads :
                    pc[t] = "connect" /\ path[t] = conn'.writer.peer]_vars

\* a client first connected to the per-user socket holds, after a failed
\* cycle, a failed attempt and a successful one, its second connection to
\* that socket
C14_Witness ==
    \E t \in Threads :
        /\ ctor.peer = UserPath
        /\ conn.writer.id = 2
        /\ conn.writer.peer = UserPath
        /\ Count(trace[t], "connect_err") >= 1
        /\ trace[t] # <<>>
        /\ Last(trace[t]).ev = "connect_ok"

(***************************************************************************)
(* C15  Request order across a reconnect is not preserved.  The step that  *)
(* replaces the connection for a failed request R frees the lock and puts  *)
(* R back in front of it without having written R again, and a thread      *)
(* waiting for the lock never holds it; so R competes for the lock with    *)
(* the requests issued while it was in the loop, and one of them, R2, can  *)
(* be written and answered on the new connection while R is still waiting  *)
(* to be issued again (the witness).                                       *)
(***************************************************************************)
C15_ReissueAfterRelease ==
    /\ [](\A t \in Threads : pc[t] = "lock" => lock # t)
    /\ [][\A t \in Threads :
            (pc[t] = "connect" /\ conn'.writer # conn.writer) =>
                /\ lock = t
                /\ lock' = NoThread
                /\ pc'[t] = "lock"
                /\ hist'[t].copies = hist[t].copies
                /\ hist'[t].cycles = hist[t].cycles
                /\ wire' = wire]_vars

\* R, the client's first request, failed on connection 1, has reconnected
\* and waits for the lock, its frame not written on connection 2; R2, the
\* second request issued, has been written and answered on connection 2
\* and is returning
C15_Witness ==
    \E t, u \in Threads :
        /\ t # u
        /\ calls = 2
        /\ pc[t] = "lock"
        /\ hist[t].recs = 1
        /\ hist[t].failedOn = 1
        /\ hist[t].cycles = 1
        /\ conn.writer.id = 2
        /\ pc[u] = "return"
        /\ result[u] = Ok(<<OkDoc, NL>>)
        /\ hist[u].copies = 1
        /\ hist[u].stream = 2
        /\ hist[u].readOn = 2

(***************************************************************************)
(* C16  Protocol-level and decode-level errors are never retried.  A line  *)
(* that read_line has returned is the result of the call, whatever inner   *)
(* makes of it: the thread is returning Ok of it, the line was read on the *)
(* connection the client holds, on which this call has had no failed       *)
(* cycle, and the cycle that read it put exactly one frame of the request  *)
(* on the wire.  A returning call only returns: it leaves the held         *)
(* connection in place, opens no connection and writes nothing.            *)
(***************************************************************************)
C16_LineIsTheResult ==
    \A t \in Threads :
        /\ hist[t].readOn # 0 =>
              /\ pc[t] = "return"
              /\ result[t].ok
              /\ hist[t].readOn = hist[t].stream
              /\ hist[t].readOn = conn.writer.id
              /\ hist[t].readOn = conn.reader.stream.id
              /\ hist[t].stream > hist[t].failedOn
              /\ hist[t].copies <= hist[t].cycles
              /\ hist[t].copies >= 1
              /\ Of(wire, t) = <<>>
        /\ pc[t] = "read" => Of(wire, t) = Frame(t)
        /\ (pc[t] = "return" /\ result[t].ok) => hist[t].readOn # 0

\* C16: a line read is the result in every state; the step that reads it
\* and the step that returns it leave the held connection in place, open
\* no stream and write nothing
C16_ErrorPayloadsNotRetried ==
    /\ []C16_LineIsTheResult
    /\ [][\A t \in Threads :
            (pc[t] = "return" /\ pc'[t] # "return") =>
                /\ pc'[t] = "idle"
                /\ conn' = conn
                /\ nextStream' = nextStream
                /\ wire' = wire]_vars
    /\ [][\A t \in Threads :
            (pc[t] = "read" /\ pc'[t] = "return") =>
                /\ result'[t].ok
                /\ conn'.writer = conn.writer
                /\ conn'.reader.stream = conn.reader.stream
                /\ nextStream' = nextStream
                /\ hist'[t].copies = hist[t].copies
                /\ hist'[t].cycles = hist[t].cycles]_vars

\* a daemon-reported error, which no expected type decodes to a value, is
\* being returned by a call that wrote its request once and never
\* reconnected
C16_Witness ==
    \E t \in Threads :
        /\ pc[t] = "return"
        /\ result[t] = Ok(<<ErrDoc, NL>>)
        /\ \A ty \in ExpectedTypes : ~inner([buf |-> result[t].val, ty |-> ty]).ok
        /\ hist[t].cycles = 1
        /\ hist[t].copies = 1
        /\ hist[t].recs = 0
        /\ hist[t].ioFails = 0
        /\ conn.writer.id = 1

(***************************************************************************)
(* C17  The held connection changes only by wholesale replacement on a     *)
(* successful reconnect.  In every state the reader half and the writer    *)
(* half are handles of one stream.  After construction, a step that        *)
(* changes the stream of either half is the successful connect of a thread *)
(* in the reconnect loop and puts in a fresh pair (both halves the new     *)
(* stream, nothing buffered) to the path that thread targets; every step   *)
(* that takes a call to its return (answer read, desync, peer address      *)
(* failure) and every failed reconnect attempt leaves both halves on the   *)
(* stream they were on.                                                    *)
(***************************************************************************)
C17_HalvesOfOneStream == conn.reader.stream = conn.writer

\* C17: the halves are of one stream in every state and the stream of the
\* held connection changes only in the successful connect of the loop
C17_ReplacedWholesaleOnly ==
    /\ []C17_HalvesOfOneStream
    /\ [][(client = "ready" /\
            (conn'.writer # conn.writer \/ conn'.reader.stream # conn.reader.stream)) =>
              \E t \in Threads :
                  /\ pc[t] = "connect"
                  /\ pc'[t] = "lock"
                  /\ hist'[t].recs = hist[t].recs + 1
                  /\ conn' = Pair(Stream(conn.writer.id + 1, path[t]))]_vars
    /\ [][\A t \in Threads :
            (pc'[t] # pc[t] /\ pc'[t] \in {"return", "sleep", "idle"}) =>
                /\ conn'.writer = conn.writer
                /\ conn'.reader.stream = conn.reader.stream]_vars

\* a request answered on the pair that replaced the client's first one
C17_Witness ==
    \E t \in Threads :
        /\ pc[t] = "return"
        /\ result[t].ok
        /\ hist[t].recs = 1
        /\ hist[t].readOn = 2
        /\ conn.writer.id = 2
        /\ conn.reader.stream.id = 2

(***************************************************************************)
(* C18  The lock is held from the desync check through the cycle and the   *)
(* whole reconnect loop, sleeps included.  A thread that is repairing the  *)
(* connection (reading the peer address, attempting a connect, sleeping)   *)
(* holds the lock and every other thread is outside make_request or        *)
(* waiting for the lock, so one reconnect loop runs at a time.  The holder *)
(* gives the lock up in two steps only: the successful connect that        *)
(* replaces the connection, and its return; every other step of the holder *)
(* keeps it.  The lock is taken only when free, by a thread waiting for   *)
(* it, hence never while a repair is in progress.                          *)
(***************************************************************************)
C18_RepairExcludesOthers ==
    \A t \in Threads :
        /\ pc[t] \in {"check"} \cup CycleStates \cup RepairStates => lock = t
        /\ pc[t] \in RepairStates =>
              /\ hist[t].failedOn = conn.writer.id
              /\ \A u \in Threads \ {t} : pc[u] \in {"idle", "lock"}

\* C18: a repair excludes the other threads in every state; the lock leaves
\* its holder only with the replacement or the return, and is taken only
\* when free and no repair is in progress
C18_LockHeldThroughRepair ==
    /\ []C18_RepairExcludesOthers
    /\ [][\A t \in Threads :
            /\ (lock = t /\ lock' # t) =>
                  /\ lock' = NoThread
                  /\ \/ /\ pc[t] = "connect"
                        /\ pc'[t] = "lock"
                        /\ conn'.writer.id > hist[t].failedOn
                     \/ /\ pc[t] = "return"
                        /\ pc'[t] = "idle"
            /\ (lock # t /\ lock' = t) =>
                  /\ lock = NoThread
                  /\ pc[t] = "lock"
                  /\ pc'[t] = "check"
                  /\ \A u \in Threads : pc[u] \notin RepairStates
            /\ (pc[t] \in RepairStates /\ pc'[t] \in RepairStates) =>
                  lock' = t]_vars

\* one thread sleeps between two connect attempts, holding the lock, while
\* another has entered make_request and waits for it
C18_Witness ==
    \E t, u \in Threads :
        /\ t # u
        /\ pc[t] = "sleep"
        /\ lock = t
        /\ LoopFails(trace[t]) >= 1
        /\ pc[u] = "lock"

(***************************************************************************)
(* C19  Desync is absorbing.  Once the read buffer of the held connection  *)
(* holds unread bytes and no call is inside a send/receive cycle or the    *)
(* repair that follows it (the request that left the bytes has completed), *)
(* every step keeps it so: the buffer and the held connection stay as they *)
(* are, no stream is opened, nothing is written, and every call that       *)
(* reaches the desync check goes to return the desync error.               *)
(***************************************************************************)
Desynced ==
    /\ conn.reader.buf # <<>>
    /\ \A t \in Threads : pc[t] \in {"idle", "lock", "check", "return"}

\* C19: desync is absorbing: every step from a desynced state leads to a
\* desynced state with the same held connection, and a call passing the
\* desync check there returns the desync error
C19_DesyncIsAbsorbing ==
    /\ [](Desynced => wire = <<>>)
    /\ [][Desynced =>
            /\ Desynced'
            /\ conn' = conn
            /\ nextStream' = nextStream
            /\ wire' = wire
            /\ \A t \in Threads :
                  (pc[t] = "check" /\ pc'[t] # "check") =>
                      /\ pc'[t] = "return"
                      /\ result'[t] = Err(DesyncMsg)
                      /\ hist'[t] = hist[t]]_vars

\* on the client's first connection, whose buffer holds the bytes an
\* earlier request left unread, the second request is returning the desync
\* error without having started a cycle
C19_Witness ==
    \E t \in Threads :
        /\ Desynced
        /\ calls = 2
        /\ conn.writer.id = 1
        /\ pc[t] = "return"
        /\ result[t] = Err(DesyncMsg)
        /\ hist[t].cycles = 0
        /\ hist[t].recs = 0
        /\ \A u \in Threads \ {t} : pc[u] = "idle"

====
